---------------------------- MODULE Spec2Model ----------------------------
(***************************************************************************)
(* Model of main.py: the /groq-webhook chat relay and the                  *)
(* /process_prescription handler (preprocessing, one OCR call, the         *)
(* line-by-line medication extractor).                                     *)
(*                                                                         *)
(* Python strings are modelled as sequences of one-character strings, so   *)
(* that substring tests, str.split/strip/lower and the regular expressions *)
(* of the handler are computed character by character as the code does.    *)
(***************************************************************************)
EXTENDS Naturals, Sequences, FiniteSets

VARIABLES
    \* ---- /groq-webhook ----
    chatPc,        \* "idle" | "create" | "streaming" | "done" | "failed" | "aborted"
    chunks,        \* the contents of the chunks the upstream stream will emit
    errAt,         \* 0, or k: the upstream iterator raises instead of emitting chunk k
    pulled,        \* number of upstream chunks stream_generator has pulled
    hand,          \* the fragment stream_generator has yielded and the caller not yet taken
    forwarded,     \* fragments written to the caller, in order
    chatStatus,    \* HTTP status sent to the caller (0: none yet)
    chatBody,      \* "none" | "stream" | "error_json"
    createCalls,   \* calls of groq_client.chat.completions.create
    \* ---- /process_prescription ----
    rxPc,          \* "idle" | "read" | "preprocess" | "ocr" | "extract" | "done"
    uploaded,      \* the bytes of the uploaded file
    image_bytes,   \* local image_bytes
    pil_image,     \* the preprocessing operations applied to pil_image so far
    preRaised,     \* the preprocessing step that raised ("" when none did)
    sentBytes,     \* the file bytes posted to the OCR service (<<>>: nothing posted)
    ocrCalls,      \* calls of requests.post to the OCR service
    parsed_text,   \* ParsedResults[0].ParsedText
    lines,         \* parsed_text.split("\n")
    idx,           \* index of the next line the for loop takes
    medications,   \* local medications
    origin,        \* origin[k]: the stripped line medications[k] was built from
    rxStatus,      \* HTTP status of the response (0: none yet)
    rxBody         \* "none" | "medications" | "error_json"

chatVars == <<chatPc, chunks, errAt, pulled, hand, forwarded, chatStatus,
              chatBody, createCalls>>
rxVars == <<rxPc, uploaded, image_bytes, pil_image, preRaised, sentBytes,
            ocrCalls, parsed_text, lines, idx, medications, origin,
            rxStatus, rxBody>>
vars == <<chatVars, rxVars>>

(***************************************************************************)
(* Characters and the str methods the handler uses                         *)
(***************************************************************************)
Digit == {"0", "1", "2", "3", "4", "5", "6", "7", "8", "9"}

UpperAlpha == <<"A", "B", "C", "D", "E", "F", "G", "H", "I", "J", "K", "L", "M",
                "N", "O", "P", "Q", "R", "S", "T", "U", "V", "W", "X", "Y", "Z">>

LowerAlpha == <<"a", "b", "c", "d", "e", "f", "g", "h", "i", "j", "k", "l", "m",
                "n", "o", "p", "q", "r", "s", "t", "u", "v", "w", "x", "y", "z">>

\* What str.strip, str.split() and the pattern \s treat as white space.
Whitespace == {" ", "\t", "\n", "\r", "\f"}

IsUpper(c) == \E i \in DOMAIN UpperAlpha : UpperAlpha[i] = c

IsLetter(c) == IsUpper(c) \/ \E i \in DOMAIN LowerAlpha : LowerAlpha[i] = c

\* \w of a str pattern (ASCII part).
IsWord(c) == IsLetter(c) \/ c \in Digit \/ c = "_"

\* The class [A-Za-z0-9\-].
NameChar(c) == IsLetter(c) \/ c \in Digit \/ c = "-"

lower_char(c) ==
    IF IsUpper(c)
    THEN LowerAlpha[CHOOSE i \in DOMAIN UpperAlpha : UpperAlpha[i] = c]
    ELSE c

lower(s) == [i \in 1..Len(s) |-> lower_char(s[i])]

strip(s) ==
    LET keep == {i \in 1..Len(s) : s[i] \notin Whitespace}
    IN  IF keep = {} THEN <<>>
        ELSE LET first == CHOOSE i \in keep : \A j \in keep : i <= j
                 last  == CHOOSE i \in keep : \A j \in keep : j <= i
             IN  SubSeq(s, first, last)

\* p occurs in s starting at position i.
StartsWithAt(s, p, i) ==
    /\ i >= 1
    /\ i + Len(p) - 1 <= Len(s)
    /\ \A k \in 1..Len(p) : s[i + k - 1] = p[k]

\* Python's  p in s  for a non-empty p.
Contains(s, p) == \E i \in 1..Len(s) : StartsWithAt(s, p, i)

RECURSIVE split_nl(_)
\* s.split("\n")
split_nl(s) ==
    LET at == {i \in 1..Len(s) : s[i] = "\n"}
    IN  IF at = {} THEN <<s>>
        ELSE LET i == CHOOSE x \in at : \A y \in at : x <= y
             IN  <<SubSeq(s, 1, i - 1)>> \o split_nl(SubSeq(s, i + 1, Len(s)))

RECURSIVE split_ws(_)
\* s.split(): the maximal runs of non-white-space characters.
split_ws(s) ==
    LET keep == {i \in 1..Len(s) : s[i] \notin Whitespace}
    IN  IF keep = {} THEN <<>>
        ELSE LET first == CHOOSE i \in keep : \A j \in keep : i <= j
                 gaps  == {i \in first..Len(s) : s[i] \in Whitespace}
                 stop  == IF gaps = {} THEN Len(s) + 1
                          ELSE CHOOSE i \in gaps : \A j \in gaps : i <= j
             IN  <<SubSeq(s, first, stop - 1)>> \o split_ws(SubSeq(s, stop, Len(s)))


(***************************************************************************)
(* The tables and patterns of the medication extractor                     *)
(***************************************************************************)
\* medicine_keywords, lower case.
medicine_keywords ==
    { <<"t","a","b">>, <<"t","a","b","l","e","t">>, <<"c","a","p">>,
      <<"c","a","p","s","u","l","e">>, <<"s","y","r">>, <<"s","y","r","u","p">>,
      <<"i","n","j">>, <<"i","n","j","e","c","t","i","o","n">>,
      <<"d","r","o","p">>, <<"d","r","o","p","s">>,
      <<"c","r","e","a","m">>, <<"o","i","n","t","m","e","n","t">> }

T0800 == <<"0","8",":","0","0">>
T1400 == <<"1","4",":","0","0">>
T2000 == <<"2","0",":","0","0">>

\* frequency_patterns, in the insertion order a dict iterates in.
frequency_patterns ==
    << [key |-> <<"1","-","0","-","1">>, times |-> <<T0800, T2000>>],
       [key |-> <<"1","-","1","-","1">>, times |-> <<T0800, T1400, T2000>>],
       [key |-> <<"0","-","0","-","1">>, times |-> <<T2000>>],
       [key |-> <<"0","-","1","-","1">>, times |-> <<T1400, T2000>>],
       [key |-> <<"1","-","1","-","0">>, times |-> <<T0800, T1400>>],
       [key |-> <<"o","d">>,             times |-> <<T0800>>],
       [key |-> <<"b","d">>,             times |-> <<T0800, T2000>>],
       [key |-> <<"t","d","s">>,         times |-> <<T0800, T1400, T2000>>],
       [key |-> <<"h","s">>,             times |-> <<T2000>>],
       [key |-> <<"o","n","c","e">>,     times |-> <<T0800>>],
       [key |-> <<"t","w","i","c","e">>, times |-> <<T0800, T2000>>],
       [key |-> <<"d","a","i","l","y">>, times |-> <<T0800>>] >>

\* The alternation (mg|ml|mcg|g), in the order the pattern tries it.
dose_units == << <<"m","g">>, <<"m","l">>, <<"m","c","g">>, <<"g">> >>

\* Length of the first alternative of (mg|ml|mcg|g) that matches s at p; 0 if none.
UnitLenAt(s, p) ==
    LET hit == {u \in DOMAIN dose_units : StartsWithAt(s, dose_units[u], p)}
    IN  IF hit = {} THEN 0
        ELSE Len(dose_units[CHOOSE u \in hit : \A v \in hit : u <= v])

\* any(k in lower_line for k in medicine_keywords)
has_keyword(lower_line) == \E k \in medicine_keywords : Contains(lower_line, k)

\* any(freq in lower_line for freq in frequency_patterns.keys())
has_frequency(lower_line) ==
    \E f \in DOMAIN frequency_patterns : Contains(lower_line, frequency_patterns[f].key)

\* re.search(r"\d+\s?(mg|ml|mcg|g)", lower_line) finds a match.
has_dose(lower_line) ==
    \E j \in 1..Len(lower_line) :
        /\ lower_line[j] \in Digit
        /\ \/ UnitLenAt(lower_line, j + 1) > 0
           \/ /\ j + 1 <= Len(lower_line)
              /\ lower_line[j + 1] \in Whitespace
              /\ UnitLenAt(lower_line, j + 2) > 0

\* A faulty variant of is_medicine_line: the candidacy filter is left out.
is_medicine_line_unfiltered(lower_line) == Len(lower_line) >= 0

\* Step 1: is_medicine_line after the three tests.
is_medicine_line(lower_line) ==
    has_keyword(lower_line) \/ has_frequency(lower_line) \/ has_dose(lower_line)

\* Where (\d{1,4}\s?(mg|ml|mcg|g)) with IGNORECASE, started at i with n digits,
\* ends (0: no match): \s? is tried with the white space first, then without.
DoseEndWith(s, i, n) ==
    LET ls == lower(s)
        p  == i + n
    IN  IF ~(i + n - 1 <= Len(s) /\ \A k \in i..(i + n - 1) : s[k] \in Digit) THEN 0
        ELSE IF p <= Len(s) /\ s[p] \in Whitespace /\ UnitLenAt(ls, p + 1) > 0
             THEN p + UnitLenAt(ls, p + 1)
        ELSE IF UnitLenAt(ls, p) > 0 THEN p - 1 + UnitLenAt(ls, p)
        ELSE 0

\* The end of the match started at i: \d{1,4} is greedy, 4 digits tried first.
DoseEndAt(s, i) ==
    LET ok == {n \in 1..4 : DoseEndWith(s, i, n) > 0}
    IN  IF ok = {} THEN 0
        ELSE DoseEndWith(s, i, CHOOSE n \in ok : \A m \in ok : m <= n)

\* Step 2: group(1) of the leftmost match in line_clean, "" when there is none.
extract_dosage(line_clean) ==
    LET at == {i \in 1..Len(line_clean) : DoseEndAt(line_clean, i) > 0}
    IN  IF at = {} THEN <<>>
        ELSE LET i == CHOOSE x \in at : \A y \in at : x <= y
             IN  SubSeq(line_clean, i, DoseEndAt(line_clean, i))

\* re.match(r"[A-Za-z][A-Za-z0-9\-]{2,30}", t) matches (a prefix of) t.
name_token_match(t) ==
    /\ Len(t) >= 3
    /\ IsLetter(t[1])
    /\ NameChar(t[2])
    /\ NameChar(t[3])

\* \b at the position after index e of s.
BoundaryAfter(s, e) ==
    IF e = 0 THEN Len(s) > 0 /\ IsWord(s[1])
    ELSE IF e = Len(s) THEN IsWord(s[e])
    ELSE IsWord(s[e]) # IsWord(s[e + 1])

\* End of the match of \b([A-Za-z][A-Za-z0-9\-]{2,30})\b started at i (0: none):
\* the repetition is greedy and gives characters back until \b holds.
NameOnlyEndAt(s, i) ==
    LET ends == {e \in (i + 2)..Len(s) :
                    /\ e <= i + 30
                    /\ \A k \in (i + 1)..e : NameChar(s[k])
                    /\ BoundaryAfter(s, e)}
    IN  IF ~(IsLetter(s[i]) /\ BoundaryAfter(s, i - 1)) \/ ends = {} THEN 0
        ELSE CHOOSE e \in ends : \A f \in ends : f <= e

\* medicine_name_only_pattern.search(line_clean): group(1), "" when no match.
name_only_search(line_clean) ==
    LET at == {i \in 1..Len(line_clean) : NameOnlyEndAt(line_clean, i) > 0}
    IN  IF at = {} THEN <<>>
        ELSE LET i == CHOOSE x \in at : \A y \in at : x <= y
             IN  SubSeq(line_clean, i, NameOnlyEndAt(line_clean, i))

\* Step 3: the first token that is no keyword and matches the name pattern,
\* else the first word the name-only pattern finds.
extract_name(line_clean) ==
    LET tokens == split_ws(line_clean)
        good   == {k \in DOMAIN tokens :
                      /\ lower(tokens[k]) \notin medicine_keywords
                      /\ name_token_match(tokens[k])}
    IN  IF good # {} THEN tokens[CHOOSE k \in good : \A j \in good : k <= j]
        ELSE name_only_search(line_clean)

\* Step 4: the times of the first key, in table order, that lower_line contains.
frequency_times(lower_line) ==
    LET hit == {f \in DOMAIN frequency_patterns :
                   Contains(lower_line, frequency_patterns[f].key)}
    IN  IF hit = {} THEN <<>>
        ELSE frequency_patterns[CHOOSE f \in hit : \A g \in hit : f <= g].times

\* Length of the match of ([0-2]?\d:[0-5]\d) at i (0: none): the optional
\* [0-2] is tried first, then the pattern without it.
TimeLenAt(s, i) ==
    LET Clock(p) == /\ p + 3 <= Len(s)
                    /\ s[p] \in Digit
                    /\ s[p + 1] = ":"
                    /\ s[p + 2] \in {"0","1","2","3","4","5"}
                    /\ s[p + 3] \in Digit
    IN  IF i <= Len(s) /\ s[i] \in {"0","1","2"} /\ Clock(i + 1) THEN 5
        ELSE IF Clock(i) THEN 4
        ELSE 0

RECURSIVE find_times(_, _)
\* Step 5: re.findall(r"([0-2]?\d:[0-5]\d)", line_clean) scanning from i:
\* the non-overlapping matches, left to right.
find_times(s, i) ==
    IF i > Len(s) THEN <<>>
    ELSE IF TimeLenAt(s, i) > 0
         THEN <<SubSeq(s, i, i + TimeLenAt(s, i) - 1)>>
                  \o find_times(s, i + TimeLenAt(s, i))
    ELSE find_times(s, i + 1)

\* A faulty variant of extract_times: the frequency table takes precedence
\* over explicit HH:MM times.
extract_times_table_first(line_clean) ==
    LET by_freq    == frequency_times(lower(line_clean))
        time_match == find_times(line_clean, 1)
        times      == IF by_freq # <<>> THEN by_freq ELSE time_match
    IN  IF times = <<>> THEN <<T0800>> ELSE times

\* Steps 4 to 6: the frequency table, overridden by explicit HH:MM times,
\* else the default time.
extract_times(line_clean) ==
    LET by_freq    == frequency_times(lower(line_clean))
        time_match == find_times(line_clean, 1)
        times      == IF time_match # <<>> THEN time_match ELSE by_freq
    IN  IF times = <<>> THEN <<T0800>> ELSE times

\* One iteration of  for line in lines : the medications after it.
extract_line(meds, line) ==
    LET line_clean == strip(line)
        lower_line == lower(line_clean)
        name       == extract_name(line_clean)
    IN  IF Len(line_clean) < 2 THEN meds
        ELSE IF ~is_medicine_line(lower_line) THEN meds
        ELSE IF name = <<>> THEN meds
        ELSE Append(meds, [name    |-> strip(name),
                           dosage  |-> strip(extract_dosage(line_clean)),
                           timings |-> extract_times(line_clean)])

(***************************************************************************)
(* Inputs                                                                  *)
(***************************************************************************)
MaxItems == 3
MaxOcrItems == 2
MaxChunks == 3

NL == <<"\n">>

\* The words OCR texts are made of.
Vocab ==
    { <<"T","a","b">>,
      <<"D","o","l","o">>,
      <<"A","b","d","o","l">>,
      <<"I","n","j","u","r","y">>,
      <<"B","D">>,
      <<"5","m","g">>,
      <<"1","-","0","-","1">>,
      <<"0","-","1","-","0">>,
      <<"8",":","3","0">>,
      <<"2","0",":","1","5">>,
      <<"3","5",":","3","0">> }

RECURSIVE JoinItems(_)
\* The items of a text, separated by single spaces.
JoinItems(items) ==
    IF items = <<>> THEN <<>>
    ELSE IF Len(items) = 1 THEN items[1]
    ELSE items[1] \o <<" ">> \o JoinItems(SubSeq(items, 2, Len(items)))

\* The texts of up to n words and line breaks.
TextsUpTo(n) ==
    {JoinItems(items) :
        items \in UNION {[1..k -> Vocab \cup {NL}] : k \in 0..n}}

\* The texts handed to the extractor.
Texts == TextsUpTo(MaxItems)

\* The texts the OCR service answers with in a whole request.
OcrTexts == TextsUpTo(MaxOcrItems)

Images == {"imgA", "imgB"}

\* What chunk.choices[0].delta.content can be: None or "" (falsy), or text.
Contents == {"", "a", "b"}

ChunkSeqs == UNION {[1..n -> Contents] : n \in 0..MaxChunks}

(***************************************************************************)
(* /process_prescription                                                   *)
(***************************************************************************)
\* The calls of the preprocessing try block, in order.
PreSteps == <<"open", "convert", "autocontrast", "median", "unsharp",
              "histogram", "point", "save">>

\* The bytes img_buffer.getvalue() returns for an upload.
Processed(img) == [data |-> img, form |-> "binarized_png"]

Original(img) == [data |-> img, form |-> "as_uploaded"]

RxIdle ==
    /\ rxPc = "idle"
    /\ uploaded = "" /\ image_bytes = <<>> /\ pil_image = <<>> /\ preRaised = ""
    /\ sentBytes = <<>> /\ ocrCalls = 0 /\ parsed_text = <<>> /\ lines = <<>>
    /\ idx = 0 /\ medications = <<>> /\ origin = <<>>
    /\ rxStatus = 0 /\ rxBody = "none"

\* image_bytes = await image.read()
RxRead ==
    /\ UNCHANGED chatVars
    /\ rxPc = "idle"
    /\ \E img \in Images :
         /\ uploaded' = img
         /\ image_bytes' = Original(img)
    /\ rxPc' = "preprocess"
    /\ UNCHANGED <<pil_image, preRaised, sentBytes, ocrCalls, parsed_text, lines,
                   idx, medications, origin, rxStatus, rxBody>>

\* The next call of the try block returns: pil_image is rebound; image_bytes is
\* assigned only after the last one (img_buffer.getvalue()).
RxPreStep ==
    /\ UNCHANGED chatVars
    /\ rxPc = "preprocess"
    /\ Len(pil_image) < Len(PreSteps)
    /\ pil_image' = Append(pil_image, PreSteps[Len(pil_image) + 1])
    /\ IF Len(pil_image') = Len(PreSteps)
       THEN /\ image_bytes' = Processed(uploaded)
            /\ rxPc' = "ocr"
       ELSE UNCHANGED <<image_bytes, rxPc>>
    /\ UNCHANGED <<uploaded, preRaised, sentBytes, ocrCalls, parsed_text, lines,
                   idx, medications, origin, rxStatus, rxBody>>

\* A faulty variant of RxPreRaise: no inner try, the exception reaches the
\* outer except clause and the request ends with 500.
RxPreRaise_propagates ==
    /\ UNCHANGED chatVars
    /\ rxPc = "preprocess"
    /\ Len(pil_image) < Len(PreSteps)
    /\ preRaised' = PreSteps[Len(pil_image) + 1]
    /\ rxStatus' = 500
    /\ rxBody' = "error_json"
    /\ rxPc' = "done"
    /\ UNCHANGED <<uploaded, image_bytes, pil_image, sentBytes, ocrCalls,
                   parsed_text, lines, idx, medications, origin>>

\* The next call of the try block raises: the except clause prints and goes on.
RxPreRaise ==
    /\ UNCHANGED chatVars
    /\ rxPc = "preprocess"
    /\ Len(pil_image) < Len(PreSteps)
    /\ preRaised' = PreSteps[Len(pil_image) + 1]
    /\ rxPc' = "ocr"
    /\ UNCHANGED <<uploaded, image_bytes, pil_image, sentBytes, ocrCalls,
                   parsed_text, lines, idx, medications, origin, rxStatus, rxBody>>

\* requests.post or ocr_response.json() raises, or ParsedResults[0] has no
\* ParsedText: the outer except answers 500.
RxOcrRaise ==
    /\ UNCHANGED chatVars
    /\ rxPc = "ocr"
    /\ sentBytes' = image_bytes
    /\ ocrCalls' = ocrCalls + 1
    /\ rxStatus' = 500
    /\ rxBody' = "error_json"
    /\ rxPc' = "done"
    /\ UNCHANGED <<uploaded, image_bytes, pil_image, preRaised, parsed_text, lines,
                   idx, medications, origin>>

\* The OCR service answers without (or with empty) ParsedResults.
RxOcrNoResults ==
    /\ UNCHANGED chatVars
    /\ rxPc = "ocr"
    /\ sentBytes' = image_bytes
    /\ ocrCalls' = ocrCalls + 1
    /\ rxStatus' = 400
    /\ rxBody' = "error_json"
    /\ rxPc' = "done"
    /\ UNCHANGED <<uploaded, image_bytes, pil_image, preRaised, parsed_text, lines,
                   idx, medications, origin>>

\* The OCR service answers with ParsedResults[0].ParsedText = text.
RxOcrText ==
    /\ UNCHANGED chatVars
    /\ rxPc = "ocr"
    /\ sentBytes' = image_bytes
    /\ ocrCalls' = ocrCalls + 1
    /\ \E text \in OcrTexts :
         /\ parsed_text' = text
         /\ lines' = split_nl(text)
    /\ idx' = 1
    /\ medications' = <<>>
    /\ rxPc' = "extract"
    /\ UNCHANGED <<uploaded, image_bytes, pil_image, preRaised, origin, rxStatus,
                   rxBody>>

\* One iteration of the for loop.
RxLine ==
    /\ UNCHANGED chatVars
    /\ rxPc = "extract"
    /\ idx <= Len(lines)
    /\ medications' = extract_line(medications, lines[idx])
    /\ origin' = IF Len(medications') > Len(medications)
                 THEN Append(origin, strip(lines[idx]))
                 ELSE origin
    /\ idx' = idx + 1
    /\ UNCHANGED <<rxPc, uploaded, image_bytes, pil_image, preRaised, sentBytes,
                   ocrCalls, parsed_text, lines, rxStatus, rxBody>>

\* return JSONResponse(content={"medications": medications, "exercises": []})
RxRespond ==
    /\ UNCHANGED chatVars
    /\ rxPc = "extract"
    /\ idx > Len(lines)
    /\ rxStatus' = 200
    /\ rxBody' = "medications"
    /\ rxPc' = "done"
    /\ UNCHANGED <<uploaded, image_bytes, pil_image, preRaised, sentBytes, ocrCalls,
                   parsed_text, lines, idx, medications, origin>>

(***************************************************************************)
(* /groq-webhook                                                           *)
(***************************************************************************)
ChatIdle ==
    /\ chatPc = "idle"
    /\ chunks = <<>> /\ errAt = 0 /\ pulled = 0 /\ hand = <<>> /\ forwarded = <<>>
    /\ chatStatus = 0 /\ chatBody = "none" /\ createCalls = 0

\* groq_client.chat.completions.create(...) raises: the except clause answers 500.
ChatCreateRaise ==
    /\ UNCHANGED rxVars
    /\ chatPc = "idle"
    /\ createCalls' = createCalls + 1
    /\ chatStatus' = 500
    /\ chatBody' = "error_json"
    /\ chatPc' = "failed"
    /\ UNCHANGED <<chunks, errAt, pulled, hand, forwarded>>

\* create(...) returns the stream and the handler returns the StreamingResponse:
\* the handler's try block is left, the response starts with status 200 and the
\* body is produced by iterating stream_generator afterwards.
ChatCreateOk ==
    /\ UNCHANGED rxVars
    /\ chatPc = "idle"
    /\ createCalls' = createCalls + 1
    /\ \E cs \in ChunkSeqs :
         /\ chunks' = cs
         /\ errAt' \in 0..(Len(cs) + 1)
    /\ chatStatus' = 200
    /\ chatBody' = "stream"
    /\ chatPc' = "streaming"
    /\ UNCHANGED <<pulled, hand, forwarded>>

\* A faulty variant of ChatPull: every chunk's content is yielded, falsy or not.
ChatPull_unfiltered ==
    /\ UNCHANGED rxVars
    /\ chatPc = "streaming"
    /\ hand = <<>>
    /\ pulled < Len(chunks)
    /\ errAt # pulled + 1
    /\ pulled' = pulled + 1
    /\ hand' = <<chunks[pulled + 1]>>
    /\ UNCHANGED <<chatPc, chunks, errAt, forwarded, chatStatus, chatBody, createCalls>>

\* stream_generator: the for loop takes the next chunk and yields its content
\* when it is truthy.
ChatPull ==
    /\ UNCHANGED rxVars
    /\ chatPc = "streaming"
    /\ hand = <<>>
    /\ pulled < Len(chunks)
    /\ errAt # pulled + 1
    /\ pulled' = pulled + 1
    /\ hand' = IF chunks[pulled + 1] # "" THEN <<chunks[pulled + 1]>> ELSE <<>>
    /\ UNCHANGED <<chatPc, chunks, errAt, forwarded, chatStatus, chatBody, createCalls>>

\* The response writes the yielded fragment to the caller and resumes the generator.
ChatForward ==
    /\ UNCHANGED rxVars
    /\ chatPc = "streaming"
    /\ hand # <<>>
    /\ forwarded' = forwarded \o hand
    /\ hand' = <<>>
    /\ UNCHANGED <<chatPc, chunks, errAt, pulled, chatStatus, chatBody, createCalls>>

\* The upstream iterator is exhausted: the generator returns, the body ends.
ChatEnd ==
    /\ UNCHANGED rxVars
    /\ chatPc = "streaming"
    /\ hand = <<>>
    /\ pulled = Len(chunks)
    /\ errAt # pulled + 1
    /\ chatPc' = "done"
    /\ UNCHANGED <<chunks, errAt, pulled, hand, forwarded, chatStatus, chatBody,
                   createCalls>>

\* The upstream iterator raises inside stream_generator: no except clause is
\* around it, the status line is already sent, the body is cut short.
ChatStreamRaise ==
    /\ UNCHANGED rxVars
    /\ chatPc = "streaming"
    /\ hand = <<>>
    /\ errAt = pulled + 1
    /\ chatPc' = "aborted"
    /\ UNCHANGED <<chunks, errAt, pulled, hand, forwarded, chatStatus, chatBody,
                   createCalls>>

(***************************************************************************)
(* Specifications                                                          *)
(***************************************************************************)
Init == ChatIdle /\ RxIdle

NextRx ==
    \/ RxRead
    \/ RxPreStep
    \/ RxPreRaise
    \/ RxOcrRaise
    \/ RxOcrNoResults
    \/ RxOcrText
    \/ RxLine
    \/ RxRespond

NextChat ==
    \/ ChatCreateRaise
    \/ ChatCreateOk
    \/ ChatPull
    \/ ChatForward
    \/ ChatEnd
    \/ ChatStreamRaise

\* One /process_prescription request.
Spec == Init /\ [][NextRx]_vars

\* The extractor on every text of Texts: a request that has posted the
\* preprocessed image and holds the OCR service's ParsedText.
InitExtract ==
    /\ ChatIdle
    /\ rxPc = "extract"
    /\ uploaded = "imgA"
    /\ image_bytes = Processed("imgA")
    /\ pil_image = PreSteps
    /\ preRaised = ""
    /\ sentBytes = Processed("imgA")
    /\ ocrCalls = 1
    /\ parsed_text \in Texts
    /\ lines = split_nl(parsed_text)
    /\ idx = 1
    /\ medications = <<>>
    /\ origin = <<>>
    /\ rxStatus = 0
    /\ rxBody = "none"

NextExtract ==
    \/ RxLine
    \/ RxRespond

SpecExtract == InitExtract /\ [][NextExtract]_vars

\* One /groq-webhook request.
SpecChat == Init /\ [][NextChat]_vars

(***************************************************************************)
(* Vocabulary of the properties                                            *)
(***************************************************************************)
Morning == <<"M","o","r","n","i","n","g">>
Noon == <<"N","o","o","n">>
Night == <<"N","i","g","h","t">>
AsDirected == <<"A","s"," ","d","i","r","e","c","t","e","d">>

\* A timing entry read as a time-of-day label: the table's clock times stand
\* for Morning, Noon and Night.
TimeLabel(t) ==
    IF t = T0800 THEN Morning
    ELSE IF t = T1400 THEN Noon
    ELSE IF t = T2000 THEN Night
    ELSE t

Labels(timings) == [i \in 1..Len(timings) |-> TimeLabel(timings[i])]

\* a occurs in ll at i as a whole word.
WholeWordAt(ll, a, i) ==
    /\ StartsWithAt(ll, a, i)
    /\ (i = 1 \/ ~IsWord(ll[i - 1]))
    /\ (i + Len(a) > Len(ll) \/ ~IsWord(ll[i + Len(a)]))

HasWholeWord(ll, a) == \E i \in 1..Len(ll) : WholeWordAt(ll, a, i)

\* A D-D-D token with each D in {0,1}.
IsShorthand(t) ==
    /\ Len(t) = 5
    /\ t[1] \in {"0","1"} /\ t[3] \in {"0","1"} /\ t[5] \in {"0","1"}
    /\ t[2] = "-" /\ t[4] = "-"

ShorthandTokens(line) == SelectSeq(split_ws(line), IsShorthand)

\* The labels of the non-zero positions, in the order Morning, Noon, Night.
ShorthandLabels(t) ==
    (IF t[1] = "1" THEN <<Morning>> ELSE <<>>)
        \o (IF t[3] = "1" THEN <<Noon>> ELSE <<>>)
        \o (IF t[5] = "1" THEN <<Night>> ELSE <<>>)

\* Length of the H:MM (4) or HH:MM (5) clock time that starts at i of line;
\* 0 when none does.
ClockLenAt(line, i) ==
    LET D(k) == k <= Len(line) /\ line[k] \in Digit
        M(k) == k <= Len(line) /\ line[k] \in {"0","1","2","3","4","5"}
        C(k) == k <= Len(line) /\ line[k] = ":"
    IN  IF D(i) /\ line[i] \in {"0","1","2"} /\ D(i + 1) /\ C(i + 2) /\ M(i + 3) /\ D(i + 4)
        THEN 5
        ELSE IF D(i) /\ C(i + 1) /\ M(i + 2) /\ D(i + 3) THEN 4
        ELSE 0

\* The start positions of the clock times of line: a clock time counts unless
\* it begins inside one that counts and starts further left.
ClockStarts(line) ==
    LET shaped == {i \in 1..Len(line) : ClockLenAt(line, i) > 0}
    IN  CHOOSE m \in SUBSET shaped :
            \A i \in shaped :
                i \in m <=> ~\E j \in m : j < i /\ i < j + ClockLenAt(line, j)

\* The r-th smallest element of a finite set of numbers.
Nth(set, r) == CHOOSE x \in set : Cardinality({y \in set : y < x}) = r - 1

\* The clock times of line, verbatim, in order of occurrence.
ClockTimes(line) ==
    LET m == ClockStarts(line)
    IN  [r \in 1..Cardinality(m) |->
            SubSeq(line, Nth(m, r), Nth(m, r) + ClockLenAt(line, Nth(m, r)) - 1)]

abbr_od == <<"o","d">>
abbr_bd == <<"b","d">>
abbr_tds == <<"t","d","s">>
abbr_hs == <<"h","s">>

Abbreviations == {abbr_od, abbr_bd, abbr_tds, abbr_hs}

AbbreviationLabels(a) ==
    IF a = abbr_od THEN <<Morning>>
    ELSE IF a = abbr_bd THEN <<Morning, Night>>
    ELSE IF a = abbr_tds THEN <<Morning, Noon, Night>>
    ELSE <<Night>>

\* The frequency phrases and the time-of-day words.
TimingWords ==
    { <<"o","n","c","e">>, <<"t","w","i","c","e">>, <<"d","a","i","l","y">>,
      <<"t","i","m","e","s">>, <<"m","o","r","n","i","n","g">>, <<"n","o","o","n">>,
      <<"n","i","g","h","t">>, <<"e","v","e","n","i","n","g">> }

\* line carries a D-D-D shorthand, a clock time, a frequency phrase or a
\* time-of-day word.
OtherTimingEvidence(line) ==
    \/ ShorthandTokens(line) # <<>>
    \/ \E f \in 1..5 : Contains(line, frequency_patterns[f].key)
    \/ ClockStarts(line) # {}
    \/ \E w \in TimingWords : Contains(lower(line), w)

\* The medicine-form keywords of the candidacy rule as stated.
StatedKeywords ==
    { <<"t","a","b">>, <<"t","a","b","l","e","t">>, <<"c","a","p">>,
      <<"c","a","p","s","u","l","e">>, <<"s","y","r","u","p">>,
      <<"i","n","j","e","c","t","i","o","n">>, <<"d","r","o","p">>,
      <<"c","r","e","a","m">>, <<"o","i","n","t","m","e","n","t">> }

\* The same with the abbreviations syr and inj (and drops).
FullKeywords ==
    StatedKeywords \cup { <<"s","y","r">>, <<"i","n","j">>, <<"d","r","o","p","s">> }

\* A number directly followed, or followed after one white-space character,
\* by a dosage unit.
DoseUnitByNumber(ll) ==
    \E i \in 1..Len(ll) :
        /\ ll[i] \in Digit
        /\ \E gap \in {0, 1} :
              /\ gap = 1 => (i + 1 <= Len(ll) /\ ll[i + 1] \in Whitespace)
              /\ \E u \in {<<"m","g">>, <<"m","l">>, <<"m","c","g">>, <<"g">>} :
                    StartsWithAt(ll, u, i + 1 + gap)

\* A recognized frequency token: a key of the frequency table.
FrequencyToken(ll) ==
    \E f \in DOMAIN frequency_patterns : Contains(ll, frequency_patterns[f].key)

\* The three grounds of candidacy, over the keyword set kws.
Candidate(line, kws) ==
    LET ll == lower(line)
    IN  \/ DoseUnitByNumber(ll)
        \/ \E k \in kws : Contains(ll, k)
        \/ FrequencyToken(ll)

(***************************************************************************)
(* Properties                                                              *)
(***************************************************************************)

\* C1: the medications list holds no two records whose names are equal under
\* case-insensitive comparison.
C1_NoDuplicateNames ==
    \A i, j \in DOMAIN medications :
        i < j => lower(medications[i].name) # lower(medications[j].name)

\* C2 as stated: a line with no dosage unit by a number, none of the stated
\* form keywords (tab, tablet, cap, capsule, syrup, injection, drop, cream,
\* ointment) and no frequency token never produces a record.
C2_StatedCandidacyFilter ==
    \A k \in DOMAIN origin : Candidate(origin[k], StatedKeywords)

\* C2: a line with no dosage unit by a number, no form keyword of the full
\* list (the stated ones and syr, inj, drops) and no frequency token never
\* produces a record, whatever the other lines are: every record comes from a
\* candidate line, and the loop has appended nothing for the other lines.
C2_CandidacyFilter ==
    /\ \A k \in DOMAIN origin : Candidate(origin[k], FullKeywords)
    /\ rxPc \in {"extract", "done"} =>
          Len(medications) <=
              Cardinality({i \in 1..(idx - 1) : Candidate(strip(lines[i]), FullKeywords)})

\* C2, the case: a request has answered with a record although one of its
\* lines, from which a name could be taken, was no candidate.
C2_Witness ==
    /\ rxPc = "done"
    /\ medications # <<>>
    /\ \E i \in DOMAIN lines :
          /\ ~Candidate(strip(lines[i]), FullKeywords)
          /\ extract_name(strip(lines[i])) # <<>>

\* C3: a record built from a line with one D-D-D token (each D in {0,1}, not
\* all zero) and no clock time has exactly the labels of the non-zero
\* positions, in the order Morning, Noon, Night.
C3_NumericShorthand ==
    \A k \in DOMAIN medications :
        LET toks == ShorthandTokens(origin[k])
        IN  (/\ Len(toks) = 1
             /\ ShorthandLabels(toks[1]) # <<>>
             /\ ClockStarts(origin[k]) = {})
            => Labels(medications[k].timings) = ShorthandLabels(toks[1])

\* C4: OD, BD, TDS and HS count only as whole words. A record built from a
\* line where they occur only inside longer words, with no other timing
\* evidence, has no timing from them (the fallback only); a record built from
\* a line with one of them as a whole word, and no other timing evidence, has
\* that abbreviation's labels.
C4_WholeWordAbbreviation ==
    \A k \in DOMAIN medications :
        LET ll    == lower(origin[k])
            whole == {a \in Abbreviations : HasWholeWord(ll, a)}
        IN  ~OtherTimingEvidence(origin[k]) =>
              /\ whole = {} =>
                    Labels(medications[k].timings) \in {<<Morning>>, <<AsDirected>>}
              /\ Cardinality(whole) = 1 =>
                    \A a \in whole :
                        Labels(medications[k].timings) = AbbreviationLabels(a)

\* C5: a record built from a line that no timing rule matches has exactly the
\* timings ["As directed"].
C5_AsDirectedSentinel ==
    \A k \in DOMAIN medications :
        (/\ ~OtherTimingEvidence(origin[k])
         /\ \A a \in Abbreviations : ~Contains(lower(origin[k]), a))
        => medications[k].timings = <<AsDirected>>

\* C6: a record built from a line that contains clock times (H:MM or HH:MM)
\* has exactly those clock times as timings, verbatim, in order of occurrence,
\* one entry per match, whatever shorthand or abbreviation the line contains.
C6_ClockTimeOverride ==
    \A k \in DOMAIN medications :
        ClockStarts(origin[k]) # {} =>
            medications[k].timings = ClockTimes(origin[k])

\* C6, the case: a record built from a line with two different clock times
\* and a frequency key.
C6_Witness ==
    \E k \in DOMAIN medications :
        /\ Cardinality(ClockStarts(origin[k])) = 2
        /\ FrequencyToken(lower(origin[k]))
        /\ Len(medications[k].timings) = 2
        /\ medications[k].timings[1] # medications[k].timings[2]

\* C7: the OCR service is called again after a failure or an empty result, up
\* to 4 attempts; a request in which no attempt gave non-empty text ends with
\* 400 after the 4 attempts, and there are never more than 4 calls.
C7_OcrRetry ==
    /\ ocrCalls <= 4
    /\ (rxPc = "done" /\ parsed_text = <<>>) => (rxStatus = 400 /\ ocrCalls = 4)

\* C8: when the upstream chat-completion call raises at any point of the
\* exchange, the caller receives 500 with a JSON error body, and the upstream
\* is called at most once.
C8_UpstreamErrorGives500 ==
    /\ createCalls <= 1
    /\ chatPc \in {"failed", "aborted"} =>
          (chatStatus = 500 /\ chatBody = "error_json")

NonEmpty(c) == c # ""

\* C9: the fragments forwarded so far, with the one in hand, are the non-empty
\* contents of the chunks pulled so far, in order; at most one fragment is in
\* hand; a chunk is pulled only after the fragments of the earlier chunks are
\* forwarded; the relay can go on until the upstream ends, and has then
\* forwarded exactly the non-empty contents of all chunks.
C9_RelayOrdering ==
    /\ Len(hand) <= 1
    /\ forwarded \o hand = SelectSeq(SubSeq(chunks, 1, pulled), NonEmpty)
    /\ pulled >= 1 =>
          Len(forwarded) >= Len(SelectSeq(SubSeq(chunks, 1, pulled - 1), NonEmpty))
    /\ chatPc = "streaming" => ENABLED NextChat
    /\ chatPc = "done" =>
          (pulled = Len(chunks) /\ forwarded = SelectSeq(chunks, NonEmpty))

\* C9, the case: a stream of three chunks, one of them empty, relayed to the end.
C9_Witness ==
    /\ chatPc = "done"
    /\ Len(chunks) = 3
    /\ \E i \in DOMAIN chunks : chunks[i] = ""
    /\ Len(forwarded) = 2
    /\ forwarded[1] # forwarded[2]

\* C10: when a preprocessing step raises, the request goes on to the OCR call
\* and the bytes posted are the uploaded bytes, unchanged; the preprocessed
\* bytes are posted only when every step succeeded.
C10_PreprocessingFallback ==
    /\ (preRaised # "" /\ ocrCalls = 0) => (rxPc = "ocr" /\ rxStatus = 0)
    /\ preRaised # "" => image_bytes = Original(uploaded)
    /\ image_bytes = Processed(uploaded) => pil_image = PreSteps
    /\ ocrCalls > 0 =>
          sentBytes = IF preRaised # "" THEN Original(uploaded)
                      ELSE Processed(uploaded)

\* C10, the case: the last preprocessing step (the re-encoding) raised and
\* the request was answered from the OCR text of the uploaded bytes.
C10_Witness ==
    /\ rxPc = "done"
    /\ preRaised = "save"
    /\ sentBytes = Original(uploaded)
    /\ rxStatus = 200
    /\ medications # <<>>

=============================================================================
